---- MODULE Spec2Model ----
(***************************************************************************)
(* A model of the lcprxy chat proxy: the three SDK handlers (api/chat.js   *)
(* and its two earlier variants), the GeminiClient wrapper                 *)
(* (utils/geminiClient.js) and the two handlers built on it (with and      *)
(* without the in-memory rate limiter).                                    *)
(*                                                                         *)
(* Strings are run-length encoded: a string is a sequence of runs <<c, n>> *)
(* (n >= 1 copies of the character c) in which adjacent runs carry         *)
(* different characters, so that equal strings are equal values and a      *)
(* 4000-character text is three runs long at most.                         *)
(***************************************************************************)
EXTENDS Integers, Sequences, FiniteSets, TLC

VARIABLES
    message,        \* sanitizeMessage: the argument of the next call
    sanitized,      \* sanitizeMessage: <<>> before the call, <<result>> after it
    apiKey,         \* process.env.GEMINI_API_KEY: "missing", "blank" or "valid"
    geminiInstance, \* geminiClient.js: the singleton (FALSE: null)
    rateLimitMap,   \* part_002: client identifier -> list of timestamps
    now,            \* Date.now()
    started,        \* number of requests received so far
    inflight,       \* slot -> the request awaiting its upstream call, or Idle
    resp,           \* the response the last finished handler produced
    admitted        \* history: client identifier -> the instants at which a
                    \* request of the client passed checkRateLimit

vars == <<message, sanitized, apiKey, geminiInstance, rateLimitMap, now,
          started, inflight, resp, admitted>>

----------------------------------------------------------------------------
(* JavaScript values that reach a string test: undefined, null, a number,  *)
(* a string.                                                               *)

JsUndefined == [t |-> "undefined", s |-> <<>>, n |-> 0]
JsNull == [t |-> "null", s |-> <<>>, n |-> 0]
JsNum(k) == [t |-> "number", s |-> <<>>, n |-> k]
JsStr(str) == [t |-> "string", s |-> str, n |-> 0]

\* typeof v === "string"
IsString(v) == v.t = "string"

\* ToBoolean(v): undefined, null, 0 and "" are falsy
Truthy(v) ==
    CASE v.t = "string" -> v.s # <<>>
      [] v.t = "number" -> v.n # 0
      [] OTHER -> FALSE

----------------------------------------------------------------------------
(* Strings.                                                                *)

WhitespaceChars == {" ", "\t"}
StrippedChars == {"<", ">", "{", "}", "[", "]"}

\* String.prototype.length
RECURSIVE StrLen(_)
StrLen(str) == IF str = <<>> THEN 0 ELSE Head(str)[2] + StrLen(Tail(str))

\* The value of a concatenation of runs: adjacent runs of one character merge.
RECURSIVE Join(_)
Join(str) ==
    IF Len(str) <= 1 THEN str
    ELSE LET r == Join(Tail(str))
         IN  IF Head(str)[1] = Head(r)[1]
             THEN << <<Head(str)[1], Head(str)[2] + Head(r)[2]>> >> \o Tail(r)
             ELSE <<Head(str)>> \o r

RECURSIVE trimStart(_)
trimStart(str) ==
    IF str # <<>> /\ Head(str)[1] \in WhitespaceChars
    THEN trimStart(Tail(str)) ELSE str

RECURSIVE trimEnd(_)
trimEnd(str) ==
    IF str # <<>> /\ str[Len(str)][1] \in WhitespaceChars
    THEN trimEnd(SubSeq(str, 1, Len(str) - 1)) ELSE str

\* String.prototype.trim
trim(str) == trimEnd(trimStart(str))

\* String.prototype.slice(0, k)
RECURSIVE slice(_, _)
slice(str, k) ==
    IF str = <<>> \/ k <= 0 THEN <<>>
    ELSE IF Head(str)[2] <= k
         THEN <<Head(str)>> \o slice(Tail(str), k - Head(str)[2])
         ELSE << <<Head(str)[1], k>> >>

\* .replace(/[<>{}[\]]/g, '')
removeHarmful(str) == Join(SelectSeq(str, LAMBDA r : r[1] \notin StrippedChars))

\* .replace(/\s+/g, ' ')
RECURSIVE normalizeWhitespace(_)
normalizeWhitespace(str) ==
    IF str = <<>> THEN <<>>
    ELSE LET r == normalizeWhitespace(Tail(str))
         IN  IF Head(str)[1] \in WhitespaceChars
             THEN IF r # <<>> /\ Head(r) = <<" ", 1>> THEN r
                  ELSE << <<" ", 1>> >> \o r
             ELSE <<Head(str)>> \o r

\* The length bound of sanitizeMessage.
MAX_LENGTH == 4000

\* The limit applied one character late.
trimAndLimit_OffByOne(str) == slice(trim(str), MAX_LENGTH + 1)

\* message.trim().slice(0, 4000)
trimAndLimit(str) == slice(trim(str), MAX_LENGTH)

\* GeminiClient.sanitizeMessage
sanitizeMessage(msg) ==
    IF ~IsString(msg) THEN <<>>
    ELSE normalizeWhitespace(removeHarmful(trimAndLimit(msg.s)))

----------------------------------------------------------------------------
(* Inputs of the sanitizer.                                                *)

MaxRuns == 3
Alphabet == {"a", "b", " ", "\t", "<"}
RunLengths == {1, 2, MAX_LENGTH - 1, MAX_LENGTH}

IsCanonical(str) == \A i \in 1..(Len(str) - 1) : str[i][1] # str[i + 1][1]

StringsOf(chars, lens, k) ==
    {str \in UNION {[1..m -> chars \X lens] : m \in 0..k} : IsCanonical(str)}

SanitizerInputs ==
    {JsUndefined, JsNull, JsNum(42)}
        \cup {JsStr(str) : str \in StringsOf(Alphabet, RunLengths, MaxRuns)}

Idle == [k |-> "idle"]
NoResp == [k |-> "none"]

InitSanitize ==
    /\ message \in SanitizerInputs
    /\ sanitized = <<>>
    /\ apiKey = "valid"
    /\ geminiInstance = FALSE
    /\ rateLimitMap = <<>>
    /\ now = 0
    /\ started = 0
    /\ inflight = <<>>
    /\ resp = [k |-> "none"]
    /\ admitted = <<>>

\* One call of sanitizeMessage.
Sanitize ==
    /\ sanitized = <<>>
    /\ sanitized' = <<sanitizeMessage(message)>>
    /\ UNCHANGED <<message, apiKey, geminiInstance, rateLimitMap, now, started,
                   inflight, resp, admitted>>

\* The caller passes the sanitized text to sanitizeMessage again.
Resubmit ==
    /\ sanitized # <<>>
    /\ message' = JsStr(sanitized[1])
    /\ sanitized' = <<>>
    /\ UNCHANGED <<apiKey, geminiInstance, rateLimitMap, now, started,
                   inflight, resp, admitted>>

NextSanitize == Sanitize \/ Resubmit

SpecSanitize == InitSanitize /\ [][NextSanitize]_vars

----------------------------------------------------------------------------
(* Request and response values of the handlers.                            *)

\* A role field: a string, or absent, or a number.
Role(name) == [t |-> "string", name |-> name]
NoRole == [t |-> "undefined", name |-> ""]
NumRole == [t |-> "number", name |-> ""]

\* A field that should hold an array: absent, an array, or another object.
ArrAbsent == [k |-> "undefined", a |-> <<>>]
Arr(a) == [k |-> "array", a |-> a]
NonArr == [k |-> "object", a |-> <<>>]

\* One element of a parts array: null, or an object with a text field.
Part(text) == [k |-> "object", text |-> text]
NullPart == [k |-> "null", text |-> JsUndefined]

\* One element of history, and one element of the contents sent upstream:
\* null, a number, or an object with role, parts and text fields.
Item(role, parts, text) ==
    [k |-> "object", role |-> role, parts |-> parts, text |-> text]
NullItem == [k |-> "null", role |-> NoRole, parts |-> ArrAbsent, text |-> JsUndefined]
NumItem == [k |-> "number", role |-> NoRole, parts |-> ArrAbsent, text |-> JsUndefined]

\* The systemInstruction field: absent, a string, an object, a number.
SysAbsent == [k |-> "undefined", s |-> <<>>, obj |-> NullItem]
SysString(str) == [k |-> "string", s |-> str, obj |-> NullItem]
SysObject(item) == [k |-> "object", s |-> <<>>, obj |-> item]
SysNumber == [k |-> "number", s |-> <<>>, obj |-> NullItem]

\* A literal of the source used as a text: one run holding the literal.
Literal(text) == << <<text, 1>> >>

\* What a handler does with a request before its first await: it answers,
\* it throws out of the handler, or it calls upstream with `sent`.
NoCall == [k |-> "none", contents |-> <<>>, systemInstruction |-> SysAbsent]
Call(contents, sys) ==
    [k |-> "call", contents |-> contents, systemInstruction |-> sys]

NoBody == [kind |-> "empty", message |-> <<>>, details |-> <<>>,
           text |-> JsUndefined, finishReason |-> ""]
PlainBody(msg) == [NoBody EXCEPT !.kind = "plain", !.message = msg]
ErrorBody(msg, details) ==
    [NoBody EXCEPT !.kind = "error", !.message = msg, !.details = details]
TextBody(text) == [NoBody EXCEPT !.kind = "text", !.text = text]

Answer(status, body) ==
    [k |-> "answer", status |-> status, body |-> body, retryAfter |-> FALSE,
     sent |-> NoCall]
Throw == [k |-> "throw", status |-> 0, body |-> NoBody, retryAfter |-> FALSE,
          sent |-> NoCall]
Await(sent) == [k |-> "await", status |-> 0, body |-> NoBody,
                retryAfter |-> FALSE, sent |-> sent]

\* The body of a success response of the upstream API (and the SDK's result).
Content(parts) == [k |-> "object", parts |-> parts]
NoContent == [k |-> "undefined", parts |-> ArrAbsent]
Candidate(finishReason, content) ==
    [finishReason |-> finishReason, content |-> content]
Result(candidates) == [candidates |-> candidates]

\* result?.candidates?.[0]?.content?.parts?.[0]?.text
FirstText(result) ==
    IF result.candidates.k # "array" \/ result.candidates.a = <<>>
    THEN JsUndefined
    ELSE LET content == result.candidates.a[1].content
         IN  IF content.k # "object" \/ content.parts.k # "array"
                \/ content.parts.a = <<>> \/ content.parts.a[1].k = "null"
             THEN JsUndefined
             ELSE content.parts.a[1].text

----------------------------------------------------------------------------
(* src/api/chat.js                                                         *)

\* typeof prompt !== "string" || prompt.trim() === ""
chat_InvalidPrompt(prompt) == ~IsString(prompt) \/ trim(prompt.s) = <<>>

\* The callback of history.map: role and parts of one element. item.parts
\* of a null element is a TypeError, which chat_Throws decides.
chat_safeItem(item) ==
    LET role == IF item.k # "null" /\ item.role.t = "string"
                THEN item.role ELSE Role("user")
        parts ==
            IF item.parts.k = "array"
            THEN [i \in 1..Len(item.parts.a) |->
                    LET p == item.parts.a[i]
                    IN  Part(IF p.k # "null" /\ IsString(p.text)
                             THEN p.text ELSE JsStr(<<>>))]
            ELSE IF IsString(item.text) THEN <<Part(item.text)>>
            ELSE <<Part(JsStr(<<>>))>>
    IN  Item(role, Arr(parts), JsUndefined)

chat_safeHistory(history) ==
    IF history.k = "array"
    THEN [i \in 1..Len(history.a) |-> chat_safeItem(history.a[i])]
    ELSE <<>>

\* if (systemInstruction): a non-empty string, an object, a non-zero number
SysTruthy(sys) == sys.k \in {"object", "number"} \/ (sys.k = "string" /\ sys.s # <<>>)

chat_safeSystemInstruction(sys) ==
    IF sys.k = "string"
    THEN <<Item(Role("system"), Arr(<<Part(JsStr(sys.s))>>), JsUndefined)>>
    ELSE IF sys.k = "object"
    THEN LET o == sys.obj
             sysParts ==
                 IF o.parts.k = "array"
                 THEN [i \in 1..Len(o.parts.a) |->
                         Part(IF IsString(o.parts.a[i].text)
                              THEN o.parts.a[i].text ELSE JsStr(<<>>))]
                 ELSE <<Part(IF IsString(o.text) THEN o.text ELSE JsStr(<<>>))>>
         IN  <<Item(IF o.role = NoRole THEN Role("system") ELSE o.role,
                    Arr(sysParts), JsUndefined)>>
    ELSE <<>>

\* The TypeErrors of the synchronous part, which no try block encloses:
\* item.parts of a null element of history, p.text of a null part of
\* systemInstruction.parts.
chat_Throws(history, sys) ==
    \/ history.k = "array" /\ \E i \in 1..Len(history.a) : history.a[i].k = "null"
    \/ /\ sys.k = "object" /\ sys.obj.parts.k = "array"
       /\ \E i \in 1..Len(sys.obj.parts.a) : sys.obj.parts.a[i].k = "null"

UserContent(prompt) == Item(Role("user"), Arr(<<Part(prompt)>>), JsUndefined)

chat_handler(req) ==
    IF req.method = "OPTIONS" THEN Answer(200, NoBody)
    ELSE IF req.method # "POST"
    THEN Answer(405, ErrorBody(<<"Method Not Allowed">>, <<>>))
    ELSE IF apiKey = "missing"
    THEN Answer(500, ErrorBody(
            <<"Missing GEMINI_API_KEY or AI client not initialized.">>, <<>>))
    ELSE IF chat_InvalidPrompt(req.prompt)
    THEN Answer(400, ErrorBody(<<"Invalid or missing \"prompt\" field.">>, <<>>))
    ELSE IF chat_Throws(req.history, req.systemInstruction) THEN Throw
    ELSE Await(Call(
            (IF SysTruthy(req.systemInstruction)
             THEN chat_safeSystemInstruction(req.systemInstruction) ELSE <<>>)
                \o chat_safeHistory(req.history) \o <<UserContent(req.prompt)>>,
            SysAbsent))

\* After the await: the result is verified, a TypeError of the verification
\* and a rejection of the call are caught.
chat_reply(outcome) ==
    IF outcome.k = "throws"
    THEN Answer(500, ErrorBody(
            <<"Internal Server Error during model processing.">>, outcome.message))
    ELSE LET result == outcome.result
             content == result.candidates.a[1].content
         IN  IF result.candidates.k # "array" \/ result.candidates.a = <<>>
                \/ content.k # "object" \/ content.parts.k # "array"
             THEN Answer(500, ErrorBody(<<"Invalid response from model.">>,
                                        <<"[result]">>))
             ELSE IF content.parts.a = <<>> \/ content.parts.a[1].k = "null"
             THEN Answer(500, ErrorBody(
                    <<"Internal Server Error during model processing.">>,
                    <<"Cannot read properties of undefined (reading 'text')">>))
             ELSE IF ~IsString(content.parts.a[1].text)
             THEN Answer(500, ErrorBody(<<"Invalid response from model.">>,
                                        <<"[result]">>))
             ELSE Answer(200, TextBody(content.parts.a[1].text))

----------------------------------------------------------------------------
(* src/unnamed/part_000                                                    *)

InternalError(details) ==
    Answer(500, ErrorBody(<<"Internal Server Error during model processing.">>,
                          details))

\* The callback of (history || []).map; item.role of a null element is a
\* TypeError, which part_000_Throws decides.
part_000_item(item) ==
    Item(item.role,
         IF item.parts.k # "undefined" THEN item.parts
         ELSE Arr(<<Part(IF Truthy(item.text) THEN item.text ELSE JsStr(<<>>))>>),
         JsUndefined)

\* The TypeErrors inside the try block: map of a non-array, item.role of null.
part_000_Throws(history) ==
    \/ history.k = "object"
    \/ history.k = "array" /\ \E i \in 1..Len(history.a) : history.a[i].k = "null"

part_000_handler(req) ==
    IF req.method = "OPTIONS" THEN Answer(200, NoBody)
    ELSE IF req.method # "POST" THEN Answer(405, PlainBody(<<"Method Not Allowed">>))
    ELSE IF apiKey = "missing"
    THEN Answer(500, ErrorBody(<<"Missing GEMINI_API_KEY.">>, <<>>))
    ELSE IF ~Truthy(req.prompt)
    THEN Answer(400, ErrorBody(<<"Missing \"prompt\" field.">>, <<>>))
    ELSE IF part_000_Throws(req.history)
    THEN InternalError(<<"Cannot read properties of null (reading 'role')">>)
    ELSE Await(Call(
            [i \in 1..Len(req.history.a) |-> part_000_item(req.history.a[i])]
                \o <<UserContent(req.prompt)>>,
            req.systemInstruction))

part_000_reply(outcome) ==
    IF outcome.k = "throws" THEN InternalError(outcome.message)
    ELSE LET text == FirstText(outcome.result)
         IN  Answer(200, TextBody(IF Truthy(text) THEN text
                                  ELSE JsStr(Literal("No content generated."))))

----------------------------------------------------------------------------
(* src/unnamed/part_001                                                    *)

\* req.method ? req.method.toUpperCase() : 'UNKNOWN'
toUpperCase(method) == IF method = "post" THEN "POST" ELSE method

part_001_handler(req) ==
    IF toUpperCase(req.method) = "OPTIONS" THEN Answer(200, NoBody)
    ELSE IF toUpperCase(req.method) # "POST"
    THEN Answer(405, PlainBody(<<"Method Not Allowed. Only POST is accepted.">>))
    ELSE IF apiKey = "missing"
    THEN Answer(500, ErrorBody(<<"Server configuration error: Missing API key.">>,
                               <<>>))
    ELSE IF req.raw = "text"
    THEN Answer(400, ErrorBody(<<"Invalid JSON payload received.">>, <<>>))
    ELSE IF ~Truthy(req.prompt)
    THEN Answer(400, ErrorBody(<<"Missing \"prompt\" field in the request body.">>,
                               <<>>))
    ELSE IF req.history.k = "object"
    THEN InternalError(<<"(history || []) is not iterable">>)
    ELSE Await(Call(req.history.a \o <<UserContent(req.prompt)>>,
                    IF SysTruthy(req.systemInstruction) THEN req.systemInstruction
                    ELSE SysString(<<>>)))

\* response.text is the SDK's accessor of the first candidate's text.
part_001_reply(outcome) ==
    IF outcome.k = "throws" THEN InternalError(outcome.message)
    ELSE Answer(200, TextBody(FirstText(outcome.result)))

----------------------------------------------------------------------------
(* The three SDK handlers as a state machine. They share no state, so one  *)
(* request is followed from its arrival to its response.                   *)

MaxInflight == 2
Slots == 1..MaxInflight

NoOutcome == [k |-> "none", status |-> 0, message |-> <<>>, json |-> FALSE,
              result |-> Result(ArrAbsent)]
Throws(msg) == [NoOutcome EXCEPT !.k = "throws", !.message = msg]
Returns(result) == [NoOutcome EXCEPT !.k = "result", !.json = TRUE, !.result = result]

Flight(variant, req, sent) ==
    [k |-> "awaiting", variant |-> variant, req |-> req, sent |-> sent]

Response(variant, req, answer, sent, outcome) ==
    [k |-> "response", variant |-> variant, req |-> req,
     threw |-> answer.k = "throw", status |-> answer.status,
     body |-> answer.body, retryAfter |-> answer.retryAfter,
     sent |-> sent, outcome |-> outcome]

ChatVariants == {"chat.js", "part_000", "part_001"}

handler(variant, req) ==
    CASE variant = "chat.js" -> chat_handler(req)
      [] variant = "part_000" -> part_000_handler(req)
      [] variant = "part_001" -> part_001_handler(req)

reply(variant, outcome) ==
    CASE variant = "chat.js" -> chat_reply(outcome)
      [] variant = "part_000" -> part_000_reply(outcome)
      [] variant = "part_001" -> part_001_reply(outcome)

\* Inputs.
MaxHistory == 2

UserTurn == Item(Role("user"), Arr(<<Part(JsStr(Literal("a")))>>), JsUndefined)
ModelTurn == Item(Role("model"), Arr(<<Part(JsStr(Literal("b")))>>), JsUndefined)
WellFormedItems == {UserTurn, ModelTurn}
HistoryItems ==
    WellFormedItems \cup
    { Item(Role("model"), ArrAbsent, JsUndefined),
      Item(Role("user"), ArrAbsent, JsStr(Literal("a"))),
      Item(NumRole, Arr(<<NullPart, Part(JsNum(42))>>), JsNum(42)),
      Item(Role("admin"), Arr(<<Part(JsStr(Literal("a")))>>), JsUndefined),
      NullItem,
      NumItem }

Histories ==
    {ArrAbsent, NonArr}
        \cup {Arr(h) : h \in UNION {[1..m -> HistoryItems] : m \in 0..MaxHistory}}

Prompts ==
    {JsUndefined, JsNull, JsNum(0), JsNum(42), JsStr(<<>>),
     JsStr(Literal(" ")), JsStr(Literal("a")),
     JsStr(<< <<" ", 1>>, <<"a", 1>> >>)}

SystemInstructions ==
    {SysAbsent, SysNumber, SysString(Literal("a")),
     SysObject(Item(NoRole, Arr(<<Part(JsStr(Literal("a")))>>), JsUndefined)),
     SysObject(Item(Role("user"), ArrAbsent, JsStr(Literal("a")))),
     SysObject(Item(NoRole, Arr(<<NullPart>>), JsUndefined))}

ChatRequest(method, raw, history, prompt, sys) ==
    [method |-> method, raw |-> raw, history |-> history, prompt |-> prompt,
     systemInstruction |-> sys]

\* A request without a usable body: another method, or a body that is a
\* string and no JSON.
BodylessRequests ==
    {ChatRequest(m, "object", ArrAbsent, JsUndefined, SysAbsent) :
        m \in {"OPTIONS", "GET", "POST", "post"}}
    \cup {ChatRequest("POST", "text", ArrAbsent, JsUndefined, SysAbsent)}

ChatRequests ==
    BodylessRequests \cup
    {ChatRequest("POST", "object", h, p, sy) :
        h \in Histories, p \in Prompts, sy \in SystemInstructions}

Results ==
    {Result(ArrAbsent), Result(Arr(<<>>)),
     Result(Arr(<<Candidate("STOP", NoContent)>>)),
     Result(Arr(<<Candidate("STOP", Content(ArrAbsent))>>)),
     Result(Arr(<<Candidate("STOP", Content(Arr(<<>>)))>>)),
     Result(Arr(<<Candidate("STOP", Content(Arr(<<Part(JsUndefined)>>)))>>)),
     Result(Arr(<<Candidate("STOP", Content(Arr(<<Part(JsStr(<<>>))>>)))>>)),
     Result(Arr(<<Candidate("STOP", Content(Arr(<<Part(JsStr(Literal("hello")))>>)))>>))}

SdkOutcomes ==
    {Throws(<<"got status: 503 Service Unavailable">>)}
        \cup {Returns(r) : r \in Results}

InitChat ==
    /\ message = JsUndefined
    /\ sanitized = <<>>
    /\ apiKey \in {"missing", "valid"}
    /\ geminiInstance = FALSE
    /\ rateLimitMap = <<>>
    /\ now = 0
    /\ started = 0
    /\ inflight = [s \in Slots |-> Idle]
    /\ resp = NoResp
    /\ admitted = <<>>

\* A request arrives and the handler runs to its first await or to its end.
ChatArrive(variant, req) ==
    /\ resp = NoResp
    /\ \A s \in Slots : inflight[s] = Idle
    /\ LET r == handler(variant, req)
       IN  IF r.k = "await"
           THEN /\ inflight' = [inflight EXCEPT ![1] = Flight(variant, req, r.sent)]
                /\ resp' = NoResp
           ELSE /\ resp' = Response(variant, req, r, NoCall, NoOutcome)
                /\ UNCHANGED inflight
    /\ UNCHANGED <<message, sanitized, apiKey, geminiInstance, rateLimitMap,
                   now, started, admitted>>

\* ai.models.generateContent settles and the handler runs to its end.
ChatSettle(outcome) ==
    /\ inflight[1] # Idle
    /\ inflight[1].variant \in ChatVariants
    /\ resp' = Response(inflight[1].variant, inflight[1].req,
                        reply(inflight[1].variant, outcome),
                        inflight[1].sent, outcome)
    /\ inflight' = [inflight EXCEPT ![1] = Idle]
    /\ UNCHANGED <<message, sanitized, apiKey, geminiInstance, rateLimitMap,
                   now, started, admitted>>

\* The response leaves the server; the next request finds none pending.
Deliver ==
    /\ resp # NoResp
    /\ resp' = NoResp
    /\ UNCHANGED <<message, sanitized, apiKey, geminiInstance, rateLimitMap,
                   now, started, inflight, admitted>>

ChatArrives == \E v \in ChatVariants, req \in ChatRequests : ChatArrive(v, req)
ChatSettles == \E o \in SdkOutcomes : ChatSettle(o)

NextChat == ChatArrives \/ ChatSettles \/ Deliver

SpecChat == InitChat /\ [][NextChat]_vars

----------------------------------------------------------------------------
(* Error messages. A message is a sequence of fragments, cut so that each  *)
(* keyword the code searches for is a sequence of whole fragments.         *)

\* String.prototype.includes
includes(msg, kw) ==
    \E i \in 1..(Len(msg) - Len(kw) + 1) : SubSeq(msg, i, i + Len(kw) - 1) = kw

\* String.prototype.startsWith
startsWith(msg, kw) == Len(msg) >= Len(kw) /\ SubSeq(msg, 1, Len(kw)) = kw

RateLimitExceeded == <<"Rate limit", " exceeded. Please try again in a moment.">>
ApiKeyInvalid == <<"API", " key", " invalid or insufficient permissions.">>
BlockedRephrase ==
    <<"Response ", "blocked", " due to ", "safety",
      " concerns. Please rephrase your question to be more business-focused.">>
BlockedTryDifferent ==
    <<"Response ", "blocked", " due to ", "safety",
      " concerns. Please try a different business question.">>
Recitation == <<"Response ", "contained recitation from training data">>
NoResponseGenerated == <<"No response generated from ", "Gemini ", "API">>
InvalidRequest(msg) == <<"Invalid", " request: ">> \o msg
GeminiApiError(status, msg) ==
    <<"Gemini ", "API", " error", ": ", ToString(status), " - ">> \o msg
ServiceUnavailable(msg) == <<"Gemini service ", "unavailable", ": ">> \o msg
InvalidKeyProvided == <<"Invalid", " ", "Gemini ", "API", " key", " provided">>
EachMessageObject == <<"Each message must be an object">>
MessageRole == <<"Message", " role must be \"user\" or \"assistant\"">>
MessageContentEmpty == <<"Message", " content cannot be empty after sanitization">>
NullRoleTypeError == <<"Cannot read properties of null (reading 'role')">>
PartsTypeError == <<"Cannot read properties of undefined (reading '0')">>
JsonSyntaxError == <<"Unexpected token < in JSON at position 0">>

----------------------------------------------------------------------------
(* src/utils/geminiClient.js                                               *)

\* One element of body.messages: null, a number, or an object with role and
\* content.
Msg(role, content) == [k |-> "object", role |-> role, content |-> content]
NullMsg == [k |-> "null", role |-> NoRole, content |-> JsUndefined]
NumMsg == [k |-> "number", role |-> NoRole, content |-> JsUndefined]

\* What a call ends in: a value or a thrown Error with its message.
Thrown(msg) == [k |-> "throw", message |-> msg, contents |-> <<>>,
                content |-> JsUndefined, finishReason |-> ""]
Prepared(contents) == [Thrown(<<>>) EXCEPT !.k = "return", !.contents = contents]
Generated(content, finishReason) ==
    [Thrown(<<>>) EXCEPT !.k = "return", !.content = content,
                         !.finishReason = finishReason]

\* The callback of map in prepareMessages, for one element.
prepareMessage(msg) ==
    IF msg.k # "object" THEN Thrown(EachMessageObject)
    ELSE IF msg.role # Role("user") /\ msg.role # Role("assistant")
    THEN Thrown(MessageRole)
    ELSE LET content == sanitizeMessage(msg.content)
         IN  IF content = <<>> THEN Thrown(MessageContentEmpty)
             ELSE Prepared(<<Item(IF msg.role = Role("user") THEN Role("user")
                                  ELSE Role("model"),
                                  Arr(<<Part(JsStr(content))>>), JsUndefined)>>)

\* GeminiClient.prepareMessages, of an array: the filter reads msg.role of
\* every element, then map stops at the first element that throws.
prepareMessages(messages) ==
    IF \E i \in 1..Len(messages) : messages[i].k = "null"
    THEN Thrown(NullRoleTypeError)
    ELSE LET kept == SelectSeq(messages, LAMBDA m : m.role # Role("system"))
             out == [i \in 1..Len(kept) |-> prepareMessage(kept[i])]
             bad == {i \in 1..Len(kept) : out[i].k = "throw"}
         IN  IF bad # {}
             THEN out[CHOOSE i \in bad : \A j \in bad : i <= j]
             ELSE Prepared([i \in 1..Len(kept) |-> out[i].contents[1]])

\* GeminiClient.getSystemInstruction
getSystemInstruction(messages) ==
    LET sys == SelectSeq(messages, LAMBDA m : m.role = Role("system"))
    IN  IF sys = <<>> THEN JsUndefined ELSE sys[1].content

\* The catch block of generateContent: the message of the Error it throws.
rethrow(msg) ==
    IF \/ startsWith(msg, <<"Rate limit">>)
       \/ startsWith(msg, <<"API", " key">>)
       \/ startsWith(msg, <<"Invalid">>)
       \/ startsWith(msg, <<"Message">>)
       \/ startsWith(msg, <<"Response ", "blocked">>)
    THEN msg
    ELSE ServiceUnavailable(msg)

\* generateContent up to its fetch: the request body, or the Error thrown.
generateContent_request(messages) ==
    LET prepared == prepareMessages(messages)
    IN  IF prepared.k = "throw" THEN Thrown(rethrow(prepared.message))
        ELSE Prepared(prepared.contents)

requestBody(messages) ==
    LET systemInstruction == getSystemInstruction(messages)
    IN  Call(generateContent_request(messages).contents,
             IF Truthy(systemInstruction)
             THEN SysObject(Item(NoRole, Arr(<<Part(systemInstruction)>>),
                                 JsUndefined))
             ELSE SysAbsent)

\* The outcome of fetch and of response.json().
NetworkError(msg) == Throws(msg)
Http(status, json, msg, result) ==
    [k |-> "http", status |-> status, message |-> msg, json |-> json,
     result |-> result]

\* if (!response.ok) { ... }: the Error thrown for a non-success status.
statusError(outcome) ==
    LET errorMessage == IF outcome.json /\ outcome.message # <<>>
                        THEN outcome.message ELSE <<"Unknown error">>
    IN  IF outcome.status = 429 THEN RateLimitExceeded
        ELSE IF outcome.status = 403 THEN ApiKeyInvalid
        ELSE IF outcome.status = 400
        THEN IF includes(errorMessage, <<"safety">>)
                \/ includes(errorMessage, <<"blocked">>)
             THEN BlockedRephrase
             ELSE InvalidRequest(errorMessage)
        ELSE GeminiApiError(outcome.status, errorMessage)

\* The try block of generateContent after response.ok: what it returns or
\* throws for the body of a success response.
extract(outcome) ==
    IF ~outcome.json THEN Thrown(JsonSyntaxError)
    ELSE LET data == outcome.result
             candidate == data.candidates.a[1]
         IN  IF data.candidates.k # "array" \/ data.candidates.a = <<>>
             THEN Thrown(NoResponseGenerated)
             ELSE IF candidate.finishReason = "SAFETY"
             THEN Thrown(BlockedTryDifferent)
             ELSE IF candidate.finishReason = "RECITATION"
             THEN Thrown(Recitation)
             ELSE IF candidate.content.k = "object"
                     /\ candidate.content.parts.k # "array"
             THEN Thrown(PartsTypeError)
             ELSE LET text == FirstText(data)
                  IN  Generated(IF Truthy(text) THEN text
                                ELSE JsStr(Literal("No response generated.")),
                                candidate.finishReason)

\* generateContent from the settling of fetch on.
generateContent_response(outcome) ==
    IF outcome.k = "throws" THEN Thrown(rethrow(outcome.message))
    ELSE IF outcome.status < 200 \/ outcome.status > 299
    THEN Thrown(rethrow(statusError(outcome)))
    ELSE LET r == extract(outcome)
         IN  IF r.k = "throw" THEN Thrown(rethrow(r.message)) ELSE r

----------------------------------------------------------------------------
(* src/unnamed/part_002 and src/unnamed/part_003: the handlers built on    *)
(* GeminiClient, the first with the in-memory rate limiter.                *)

RATE_LIMIT == 60
RATE_LIMIT_WINDOW == 60000

\* requests.filter(timestamp => timestamp > windowStart)
recentRequests(identifier) ==
    SelectSeq(rateLimitMap[identifier], LAMBDA ts : ts > now - RATE_LIMIT_WINDOW)

\* A limiter that lets the request through at the limit itself.
checkRateLimit_Inclusive(identifier) ==
    Len(recentRequests(identifier)) <= RATE_LIMIT

\* checkRateLimit: its result, and the map it leaves.
checkRateLimit(identifier) == Len(recentRequests(identifier)) < RATE_LIMIT

rateLimitMapAfter(identifier) ==
    IF checkRateLimit(identifier)
    THEN [rateLimitMap EXCEPT ![identifier] = Append(recentRequests(identifier), now)]
    ELSE rateLimitMap

\* getClientIdentifier: the first header that is set ("" stands for unset).
getClientIdentifier(req) ==
    IF req.headers.forwarded # "" THEN req.headers.forwarded
    ELSE IF req.headers.realIp # "" THEN req.headers.realIp
    ELSE IF req.headers.remoteAddress # "" THEN req.headers.remoteAddress
    ELSE "anonymous"

\* createErrorResponse written with res.writeHead(statusCode, corsHeaders)
createErrorResponse(statusCode, msg, details) ==
    Answer(statusCode, ErrorBody(msg, details))

\* createSuccessResponse written with status 200
createSuccessResponse(result) ==
    Answer(200, [NoBody EXCEPT !.kind = "success", !.text = result.content,
                               !.finishReason = result.finishReason])

\* The catch block of part_002: status and message by the Error's message.
part_002_catch(msg) ==
    IF includes(msg, <<"API", " key">>) \/ includes(msg, <<"GEMINI_API_KEY">>)
    THEN createErrorResponse(500, <<"Server configuration error">>, <<>>)
    ELSE IF includes(msg, <<"Invalid">>) \/ includes(msg, <<"Message">>)
    THEN createErrorResponse(400, msg, <<>>)
    ELSE IF includes(msg, <<"Rate limit">>)
    THEN createErrorResponse(429, RateLimitExceeded, <<>>)
    ELSE IF includes(msg, <<"Gemini ", "API", " error">>)
    THEN createErrorResponse(502, <<"AI service temporarily unavailable">>, msg)
    ELSE IF includes(msg, <<"unavailable">>)
    THEN createErrorResponse(503, <<"AI service temporarily unavailable">>, <<>>)
    ELSE IF includes(msg, <<"safety">>) \/ includes(msg, <<"blocked">>)
    THEN createErrorResponse(400, <<"Request blocked for safety reasons">>, <<>>)
    ELSE createErrorResponse(500, <<"Service temporarily unavailable">>, <<>>)

\* The catch block of part_003: no rate-limit branch, "safety" only.
part_003_catch(msg) ==
    IF includes(msg, <<"API", " key">>) \/ includes(msg, <<"GEMINI_API_KEY">>)
    THEN createErrorResponse(500, <<"Server configuration error">>, <<>>)
    ELSE IF includes(msg, <<"Invalid">>) \/ includes(msg, <<"Message">>)
    THEN createErrorResponse(400, msg, <<>>)
    ELSE IF includes(msg, <<"Gemini ", "API", " error">>)
    THEN createErrorResponse(502, <<"AI service temporarily unavailable">>, msg)
    ELSE IF includes(msg, <<"unavailable">>)
    THEN createErrorResponse(503, <<"AI service temporarily unavailable">>, <<>>)
    ELSE IF includes(msg, <<"safety">>)
    THEN createErrorResponse(400, <<"Request blocked for safety reasons">>, <<>>)
    ELSE createErrorResponse(500, <<"Service temporarily unavailable">>, <<>>)

catch(variant, msg) ==
    IF variant = "part_002" THEN part_002_catch(msg) ELSE part_003_catch(msg)

\* The handler from the Content-Type check to the call of fetch, the same in
\* both files. It leaves the singleton client as `instance`.
Outcome(answer, instance) == [answer |-> answer, instance |-> instance]

validateAndCall(variant, req) ==
    IF ~req.headers.json
    THEN Outcome(createErrorResponse(415, <<"Unsupported Media Type">>,
                    <<"Content-Type must be application/json">>), geminiInstance)
    ELSE IF req.body.k = "invalid"
    THEN Outcome(createErrorResponse(400, <<"Invalid JSON in request body">>, <<>>),
                 geminiInstance)
    ELSE IF req.body.k = "null" \/ req.body.messages.k # "array"
    THEN Outcome(createErrorResponse(400, <<"Missing or invalid messages array">>,
                                     <<>>), geminiInstance)
    ELSE IF req.body.messages.a = <<>>
    THEN Outcome(createErrorResponse(400, <<"Messages array cannot be empty">>,
                                     <<>>), geminiInstance)
    ELSE IF apiKey = "missing"
    THEN Outcome(createErrorResponse(500, <<"Server configuration error">>,
                                     <<"API key not configured">>), geminiInstance)
    ELSE IF ~geminiInstance /\ apiKey = "blank"
    THEN Outcome(catch(variant, InvalidKeyProvided), FALSE)
    ELSE LET r == generateContent_request(req.body.messages.a)
         IN  IF r.k = "throw" THEN Outcome(catch(variant, r.message), TRUE)
             ELSE Outcome(Await(requestBody(req.body.messages.a)), TRUE)

\* A handler that records the request in the map after validation, so that
\* a request answered 415, 400 or 500 takes no place in its client's list.
part_002_handler_ValidateFirst(req) ==
    IF req.method = "OPTIONS"
    THEN [answer |-> Answer(200, NoBody), instance |-> geminiInstance,
          map |-> rateLimitMap]
    ELSE IF req.method # "POST"
    THEN [answer |-> createErrorResponse(405, <<"Method Not Allowed">>,
                        <<"Only POST requests are supported">>),
          instance |-> geminiInstance, map |-> rateLimitMap]
    ELSE IF ~checkRateLimit(getClientIdentifier(req))
    THEN [answer |-> [createErrorResponse(429, <<"Rate limit", " exceeded">>,
                        <<"Please try again in a minute">>)
                      EXCEPT !.retryAfter = TRUE],
          instance |-> geminiInstance, map |-> rateLimitMap]
    ELSE LET r == validateAndCall("part_002", req)
         IN  [answer |-> r.answer, instance |-> r.instance,
              map |-> IF r.answer.k = "await"
                      THEN rateLimitMapAfter(getClientIdentifier(req))
                      ELSE rateLimitMap]

\* part_002 up to its first await: the answer (or the upstream call), the
\* singleton and the rate-limit map it leaves.
part_002_handler(req) ==
    IF req.method = "OPTIONS"
    THEN [answer |-> Answer(200, NoBody), instance |-> geminiInstance,
          map |-> rateLimitMap]
    ELSE IF req.method # "POST"
    THEN [answer |-> createErrorResponse(405, <<"Method Not Allowed">>,
                        <<"Only POST requests are supported">>),
          instance |-> geminiInstance, map |-> rateLimitMap]
    ELSE IF ~checkRateLimit(getClientIdentifier(req))
    THEN [answer |-> [createErrorResponse(429, <<"Rate limit", " exceeded">>,
                        <<"Please try again in a minute">>)
                      EXCEPT !.retryAfter = TRUE],
          instance |-> geminiInstance, map |-> rateLimitMap]
    ELSE LET r == validateAndCall("part_002", req)
         IN  [answer |-> r.answer, instance |-> r.instance,
              map |-> rateLimitMapAfter(getClientIdentifier(req))]

part_003_handler(req) ==
    IF req.method = "OPTIONS"
    THEN [answer |-> Answer(200, NoBody), instance |-> geminiInstance,
          map |-> rateLimitMap]
    ELSE IF req.method # "POST"
    THEN [answer |-> createErrorResponse(405, <<"Method Not Allowed">>,
                        <<"Only POST requests are supported">>),
          instance |-> geminiInstance, map |-> rateLimitMap]
    ELSE LET r == validateAndCall("part_003", req)
         IN  [answer |-> r.answer, instance |-> r.instance, map |-> rateLimitMap]

\* Either handler from the settling of the upstream call to its end.
gateway_reply(variant, outcome) ==
    LET r == generateContent_response(outcome)
    IN  IF r.k = "throw" THEN catch(variant, r.message)
        ELSE createSuccessResponse(r)

----------------------------------------------------------------------------
(* The two GeminiClient handlers as a state machine: requests arrive, run  *)
(* to their await of fetch, and are resumed when fetch settles, in any     *)
(* interleaving.                                                           *)

MaxRequests == 2

GatewayVariants == {"part_002", "part_003"}

Headers(forwarded, remoteAddress, json) ==
    [forwarded |-> forwarded, realIp |-> "", remoteAddress |-> remoteAddress,
     json |-> json]

Identifiers == {"10.0.0.1", "10.0.0.2"}

HeaderSets ==
    {Headers("10.0.0.1", "10.0.0.2", TRUE), Headers("", "10.0.0.2", TRUE),
     Headers("10.0.0.1", "10.0.0.2", FALSE)}

Body(k, messages) == [k |-> k, messages |-> messages]

UserMsg == Msg(Role("user"), JsStr(Literal("a")))
SystemMsg == Msg(Role("system"), JsStr(Literal("b")))

MessageLists ==
    { <<UserMsg>>,
      <<SystemMsg, UserMsg, Msg(Role("assistant"), JsStr(Literal("b")))>>,
      <<Msg(Role("user"), JsStr(<< <<"<", 1>>, <<" ", 1>> >>))>>,
      <<Msg(Role("tool"), JsStr(Literal("a")))>>,
      <<UserMsg, NullMsg>>,
      <<NumMsg>> }

Bodies ==
    {Body("invalid", ArrAbsent), Body("null", ArrAbsent),
     Body("object", ArrAbsent), Body("object", NonArr), Body("object", Arr(<<>>))}
        \cup {Body("object", Arr(m)) : m \in MessageLists}

GatewayRequest(method, headers, body) ==
    [method |-> method, headers |-> headers, body |-> body]

GatewayRequests ==
    {GatewayRequest(m, Headers("10.0.0.1", "10.0.0.2", FALSE), Body("invalid", ArrAbsent)) :
        m \in {"OPTIONS", "GET"}}
    \cup {GatewayRequest("POST", h, b) : h \in HeaderSets, b \in Bodies}

UpstreamMessages ==
    { <<>>,
      <<"Request contains an invalid argument.">>,
      <<"The prompt was ", "blocked", " for ", "safety", " reasons.">>,
      <<"API", " key", " not valid. Please pass a valid ", "API", " key", ".">> }

NetworkMessages ==
    { <<"fetch failed">>,
      <<"read ECONNRESET">>,
      <<"Invalid", " response body while trying to fetch ", "[url]",
        ": Premature close">> }

HelloContent == Content(Arr(<<Part(JsStr(Literal("hello")))>>))

FetchOutcomes ==
    {NetworkError(m) : m \in NetworkMessages}
    \cup {Http(st, TRUE, m, Result(ArrAbsent)) :
            st \in {400, 403, 429, 500}, m \in UpstreamMessages}
    \cup {Http(503, FALSE, <<>>, Result(ArrAbsent)),
          Http(200, FALSE, <<>>, Result(ArrAbsent))}
    \cup {Http(200, TRUE, <<>>, r) : r \in Results}
    \cup {Http(200, TRUE, <<>>, Result(Arr(<<Candidate(f, HelloContent)>>))) :
            f \in {"SAFETY", "RECITATION", "MAX_TOKENS"}}

\* The instants the clock is read at.
Instants == {0, RATE_LIMIT_WINDOW - 1, RATE_LIMIT_WINDOW}

\* The map after n requests of one client at instant 0.
Filled(identifier, n) ==
    [c \in Identifiers |-> IF c = identifier THEN [i \in 1..n |-> 0] ELSE <<>>]

InitGateway ==
    /\ message = JsUndefined
    /\ sanitized = <<>>
    /\ apiKey \in {"missing", "blank", "valid"}
    /\ geminiInstance = FALSE
    /\ rateLimitMap \in {Filled("10.0.0.1", 0), Filled("10.0.0.1", RATE_LIMIT - 1)}
    /\ now = 0
    /\ started = 0
    /\ inflight = [s \in Slots |-> Idle]
    /\ resp = NoResp
    /\ admitted = rateLimitMap

gateway_handler(variant, req) ==
    IF variant = "part_002" THEN part_002_handler(req) ELSE part_003_handler(req)

\* A request arrives and its handler runs to the await of fetch or to its
\* end; it waits in the first free slot. A POST to part_002 that is not
\* answered by the limiter's own 429 has passed checkRateLimit.
GatewayArrive(variant, req) ==
    /\ resp = NoResp
    /\ started < MaxRequests
    /\ \E s \in Slots :
        /\ inflight[s] = Idle
        /\ \A t \in Slots : t < s => inflight[t] # Idle
        /\ LET r == gateway_handler(variant, req)
           IN  /\ rateLimitMap' = r.map
               /\ geminiInstance' = r.instance
               /\ IF r.answer.k = "await"
                  THEN /\ inflight' = [inflight EXCEPT
                                         ![s] = Flight(variant, req, r.answer.sent)]
                       /\ resp' = NoResp
                  ELSE /\ resp' = Response(variant, req, r.answer, NoCall, NoOutcome)
                       /\ UNCHANGED inflight
    /\ admitted' =
            IF /\ variant = "part_002" /\ req.method = "POST"
               /\ ~gateway_handler(variant, req).answer.retryAfter
            THEN [admitted EXCEPT ![getClientIdentifier(req)] = Append(@, now)]
            ELSE admitted
    /\ started' = started + 1
    /\ UNCHANGED <<message, sanitized, apiKey, now>>

\* fetch (and response.json()) settle for one waiting request.
GatewaySettle(s, outcome) ==
    /\ resp = NoResp
    /\ inflight[s] # Idle
    /\ inflight[s].variant \in GatewayVariants
    /\ resp' = Response(inflight[s].variant, inflight[s].req,
                        gateway_reply(inflight[s].variant, outcome),
                        inflight[s].sent, outcome)
    /\ inflight' = [inflight EXCEPT ![s] = Idle]
    /\ UNCHANGED <<message, sanitized, apiKey, geminiInstance, rateLimitMap,
                   now, started, admitted>>

\* Time passes.
Tick(t) ==
    /\ resp = NoResp
    /\ t > now
    /\ now' = t
    /\ UNCHANGED <<message, sanitized, apiKey, geminiInstance, rateLimitMap,
                   started, inflight, resp, admitted>>

GatewayArrives ==
    \E v \in GatewayVariants, req \in GatewayRequests : GatewayArrive(v, req)
GatewaySettles == \E s \in Slots, o \in FetchOutcomes : GatewaySettle(s, o)
Ticks == \E t \in Instants : Tick(t)

NextGateway == GatewayArrives \/ GatewaySettles \/ Ticks \/ Deliver

SpecGateway == InitGateway /\ [][NextGateway]_vars

----------------------------------------------------------------------------
(* Claims about the SDK handlers.                                          *)

\* A prompt that is missing, null, no string, or empty after trimming.
IsInvalidPrompt(prompt) == ~IsString(prompt) \/ trim(prompt.s) = <<>>

\* The response of an SDK handler to a POST on a server that has its key.
IsChatPost(r) ==
    /\ r # NoResp
    /\ r.variant \in ChatVariants
    /\ r.req.method = "POST"
    /\ apiKey # "missing"

(* C1: a POST whose prompt is missing, null, not a string, or empty or     *)
(* whitespace-only is answered with status 400 and no upstream call is     *)
(* made for it (on a server whose API key is configured).                  *)
C1_InvalidPromptRejected ==
    /\ IsChatPost(resp) /\ IsInvalidPrompt(resp.req.prompt)
        => resp.status = 400 /\ resp.sent = NoCall
    /\ \A s \in Slots :
        (inflight[s] # Idle /\ inflight[s].variant \in ChatVariants)
            => ~IsInvalidPrompt(inflight[s].req.prompt)

IsWellFormedHistory(history) ==
    history.k = "array" /\ \A i \in 1..Len(history.a) : history.a[i] \in WellFormedItems

(* C2: for a well-formed history and a valid prompt, the contents sent     *)
(* upstream hold the history entries in their order and end with exactly   *)
(* one user message whose text is the sanitized prompt.                    *)
C2_HistoryThenSanitizedPrompt ==
    \A s \in Slots :
        (/\ inflight[s] # Idle
         /\ inflight[s].variant \in {"chat.js", "part_000"}
         /\ IsWellFormedHistory(inflight[s].req.history)
         /\ ~IsInvalidPrompt(inflight[s].req.prompt))
        => LET contents == inflight[s].sent.contents
               h == inflight[s].req.history.a
               n == Len(contents)
           IN  /\ n >= Len(h) + 1
               /\ SubSeq(contents, n - Len(h), n - 1) = h
               /\ contents[n] =
                    UserContent(JsStr(sanitizeMessage(inflight[s].req.prompt)))

\* An element of history with neither a parts nor a text field.
LacksPartsAndText(item) ==
    item.k = "object" /\ item.parts.k = "undefined" /\ item.text.t = "undefined"

\* A request whose history is an array, with a valid prompt and no system
\* instruction.
HasHistoryArray(req) ==
    /\ req.method = "POST"
    /\ req.history.k = "array"
    /\ ~IsInvalidPrompt(req.prompt)
    /\ req.systemInstruction = SysAbsent

(* C3: whatever the elements of the history array, the handler does not    *)
(* throw and the request reaches the upstream call, an element without     *)
(* parts and text being sent in its place with one empty-text part.        *)
C3_NormalizationTotal ==
    /\ (/\ IsChatPost(resp)
        /\ resp.variant \in {"chat.js", "part_000"}
        /\ HasHistoryArray(resp.req))
        => ~resp.threw /\ resp.sent # NoCall
    /\ \A s \in Slots :
        (/\ inflight[s] # Idle
         /\ inflight[s].variant \in {"chat.js", "part_000"}
         /\ HasHistoryArray(inflight[s].req))
        => LET h == inflight[s].req.history.a
               contents == inflight[s].sent.contents
           IN  /\ Len(contents) = Len(h) + 1
               /\ \A i \in 1..Len(h) :
                    LacksPartsAndText(h[i])
                        => contents[i].parts = Arr(<<Part(JsStr(<<>>))>>)

----------------------------------------------------------------------------
(* C4: sanitizing an already sanitized string returns the same string.     *)
C4_Idempotent ==
    sanitized # <<>> => sanitizeMessage(JsStr(sanitized[1])) = sanitized[1]

\* A text without whitespace and without any of the characters < > { } [ ].
IsPlainText(str) ==
    \A i \in 1..Len(str) : str[i][1] \notin WhitespaceChars \cup StrippedChars

(* C5 as stated: a text longer than the bound is sanitized to a text of    *)
(* exactly the bound's length.                                             *)
C5_ExactlyBound ==
    (sanitized # <<>> /\ IsString(message) /\ StrLen(message.s) > MAX_LENGTH)
        => StrLen(sanitized[1]) = MAX_LENGTH

(* C5 as amended: a text longer than the bound is sanitized to a text of   *)
(* at most the bound's length, and of exactly that length when the text    *)
(* holds no whitespace and none of the stripped characters.                *)
C5_AtMostBound ==
    (sanitized # <<>> /\ IsString(message) /\ StrLen(message.s) > MAX_LENGTH)
        => /\ StrLen(sanitized[1]) <= MAX_LENGTH
           /\ IsPlainText(message.s) => StrLen(sanitized[1]) = MAX_LENGTH

C5_Witness ==
    /\ sanitized # <<>>
    /\ IsString(message)
    /\ StrLen(message.s) > MAX_LENGTH
    /\ IsPlainText(message.s)
    /\ StrLen(sanitized[1]) = MAX_LENGTH

----------------------------------------------------------------------------
(* Claims about the GeminiClient handlers.                                 *)

\* The response of a GeminiClient handler to a request whose fetch settled.
IsUpstreamReply(r) ==
    r # NoResp /\ r.variant \in GatewayVariants /\ r.outcome.k # "none"

\* The upstream answered with a non-success status / with a success status.
IsStatusReply(r) ==
    IsUpstreamReply(r) /\ r.outcome.k = "http"
        /\ (r.outcome.status < 200 \/ r.outcome.status > 299)

IsSuccessReply(r) ==
    IsUpstreamReply(r) /\ r.outcome.k = "http"
        /\ r.outcome.status >= 200 /\ r.outcome.status <= 299

HasCandidate(result) == result.candidates.k = "array" /\ result.candidates.a # <<>>

\* The taxonomy entry ContentBlocked as the handlers write it.
IsContentBlocked(r) ==
    r.status = 400 /\ r.body.message = <<"Request blocked for safety reasons">>

(* C6: when the upstream answers with a success status and a first         *)
(* candidate whose finishReason is SAFETY or RECITATION, the client        *)
(* receives ContentBlocked (400), never a 5xx and never a success.         *)
C6_BlockedCandidate ==
    (/\ IsSuccessReply(resp)
     /\ resp.outcome.json
     /\ HasCandidate(resp.outcome.result)
     /\ resp.outcome.result.candidates.a[1].finishReason \in {"SAFETY", "RECITATION"})
    => IsContentBlocked(resp)

\* errorData.error?.message || 'Unknown error'
UpstreamErrorMessage(outcome) ==
    IF outcome.json /\ outcome.message # <<>> THEN outcome.message
    ELSE <<"Unknown error">>

HasBlockKeyword(msg) == includes(msg, <<"safety">>) \/ includes(msg, <<"blocked">>)

(* C7: every non-success upstream status maps to one taxonomy entry and    *)
(* its client status, whatever the upstream error message: 429 to          *)
(* RateLimited (429), 403 to Unauthorized (403), 400 with a safety or      *)
(* blocked keyword to ContentBlocked (400), any other 400 to BadRequest    *)
(* (400), any other status to UpstreamError (502) with status and message. *)
C7_StatusMapping ==
    IsStatusReply(resp) =>
        LET st == resp.outcome.status
            msg == UpstreamErrorMessage(resp.outcome)
        IN  CASE st = 429 -> resp.status = 429
              [] st = 403 -> resp.status = 403
              [] st = 400 /\ HasBlockKeyword(msg) -> IsContentBlocked(resp)
              [] st = 400 /\ ~HasBlockKeyword(msg) ->
                    resp.status = 400 /\ ~IsContentBlocked(resp)
              [] OTHER -> /\ resp.status = 502
                          /\ includes(resp.body.details, <<ToString(st)>>)
                          /\ includes(resp.body.details, msg)

(* C8: when the upstream answers 429, the client response is RateLimited   *)
(* (429) with a Retry-After hint, and the step that answers leaves the     *)
(* rate-limit entries of every other client identifier as they were.       *)
C8_Upstream429 ==
    /\ [](IsStatusReply(resp) /\ resp.outcome.status = 429
            => resp.status = 429 /\ resp.retryAfter)
    /\ [][(IsStatusReply(resp') /\ resp'.outcome.status = 429 /\ resp = NoResp)
            => \A c \in Identifiers :
                 c # getClientIdentifier(resp'.req) => rateLimitMap'[c] = rateLimitMap[c]]_vars

(* C9: when fetch rejects, whatever the text of its error, the client      *)
(* receives ServiceUnavailable (503) and the response body does not        *)
(* contain the raw error message.                                          *)
C9_NetworkFailure ==
    (IsUpstreamReply(resp) /\ resp.outcome.k = "throws")
    => /\ resp.status = 503
       /\ ~includes(resp.body.message, resp.outcome.message)
       /\ ~includes(resp.body.details, resp.outcome.message)

\* The candidates/content/parts/text structure of a success body: a first
\* candidate whose content has a parts array whose first part has a string
\* text.
HasTextStructure(outcome) ==
    /\ outcome.json
    /\ HasCandidate(outcome.result)
    /\ LET content == outcome.result.candidates.a[1].content
       IN  /\ content.k = "object"
           /\ content.parts.k = "array"
           /\ content.parts.a # <<>>
           /\ content.parts.a[1].k = "object"
           /\ IsString(content.parts.a[1].text)

Placeholders ==
    {JsStr(Literal("No response generated.")), JsStr(Literal("No content generated."))}

\* A handler that substitutes a placeholder text, answering a call that
\* returned a success body.
IsExtractedReply(r) ==
    /\ r # NoResp
    /\ r.variant \in {"part_000", "part_002", "part_003"}
    /\ \/ r.outcome.k = "result"
       \/ r.outcome.k = "http" /\ r.outcome.status >= 200 /\ r.outcome.status <= 299

(* C10: a success body that lacks the candidates/content/parts/text        *)
(* structure is answered with MalformedUpstreamResponse (500), and the     *)
(* placeholder text is returned only for a text that is present and empty. *)
C10_MalformedOrPlaceholder ==
    IsExtractedReply(resp) =>
        /\ (/\ ~HasTextStructure(resp.outcome)
            /\ \/ ~resp.outcome.json
               \/ ~HasCandidate(resp.outcome.result)
               \/ resp.outcome.result.candidates.a[1].finishReason
                    \notin {"SAFETY", "RECITATION"})
            => resp.status = 500
        /\ (resp.status = 200 /\ resp.body.text \in Placeholders)
            => /\ HasTextStructure(resp.outcome)
               /\ FirstText(resp.outcome.result) = JsStr(<<>>)

----------------------------------------------------------------------------
(* Claims about the messages sent upstream and about malformed messages.   *)

\* The roles of the messages of an upstream request's message list.
ForwardedRoles(sent) == {sent.contents[i].role : i \in 1..Len(sent.contents)}

UpstreamRoles == {Role("user"), Role("model")}

\* C11: every message placed in the message list of an upstream request has
\* the role user or model: whatever role the caller supplied, a request that
\* awaits its upstream call holds no message with another role.
C11_ForwardedRoles ==
    \A s \in DOMAIN inflight :
        inflight[s] # Idle => ForwardedRoles(inflight[s].sent) \subseteq UpstreamRoles

\* An entry of body.messages the client rejects: null or no object, a role
\* outside user/assistant/system, or a content that sanitizes to nothing.
IsMalformedMessage(msg) ==
    \/ msg.k # "object"
    \/ msg.role \notin {Role("user"), Role("assistant"), Role("system")}
    \/ /\ msg.role \in {Role("user"), Role("assistant")}
       /\ sanitizeMessage(msg.content) = <<>>

\* A response to a POST that passed every check before the messages are
\* prepared (rate limit, content type, JSON, messages array, API key) and
\* holds a malformed entry.
IsMalformedRejection(r) ==
    /\ r.k = "response"
    /\ r.variant \in GatewayVariants
    /\ r.req.method = "POST"
    /\ r.req.headers.json
    /\ r.req.body.k = "object"
    /\ r.req.body.messages.k = "array"
    /\ \E i \in 1..Len(r.req.body.messages.a) :
            IsMalformedMessage(r.req.body.messages.a[i])
    /\ apiKey = "valid"
    /\ ~r.retryAfter

\* C12: a request rejected for a malformed message is answered 400 and no
\* upstream call was made for it.
C12_MalformedIs400 ==
    IsMalformedRejection(resp) =>
        resp.status = 400 /\ resp.sent = NoCall /\ resp.outcome = NoOutcome

----------------------------------------------------------------------------
(* Claims about the rate limiter.                                          *)

\* The number of requests of client c that passed checkRateLimit at an
\* instant of the window (t - RATE_LIMIT_WINDOW, t], the window that
\* checkRateLimit keeps at instant t.
AdmittedIn(c, t) ==
    Cardinality({i \in 1..Len(admitted[c]) :
                    admitted[c][i] > t - RATE_LIMIT_WINDOW /\ admitted[c][i] <= t})

\* C13: in every interleaving of arrivals and upstream replies, no client has
\* more than RATE_LIMIT requests admitted in one window of RATE_LIMIT_WINDOW
\* milliseconds. A window is widest at its last admitted request, so the
\* windows that end at an admitted instant decide it.
C13_WindowNeverExceeded ==
    \A c \in DOMAIN admitted :
        \A t \in {admitted[c][i] : i \in 1..Len(admitted[c])} :
            AdmittedIn(c, t) <= RATE_LIMIT

\* A client at its limit with one admitted request still awaiting upstream
\* while its next request is refused.
C13_Witness ==
    /\ resp.k = "response"
    /\ resp.variant = "part_002"
    /\ resp.status = 429
    /\ resp.retryAfter
    /\ AdmittedIn(getClientIdentifier(resp.req), now) = RATE_LIMIT
    /\ \E s \in Slots :
        /\ inflight[s] # Idle
        /\ inflight[s].variant = "part_002"
        /\ getClientIdentifier(inflight[s].req) = getClientIdentifier(resp.req)

\* The request whose handler ran in this step: it is answered at once or it
\* waits in the slot it filled.
Arrived ==
    IF resp' # NoResp THEN [variant |-> resp'.variant, req |-> resp'.req]
    ELSE LET s == CHOOSE t \in Slots : inflight[t] = Idle /\ inflight'[t] # Idle
         IN  [variant |-> inflight'[s].variant, req |-> inflight'[s].req]

\* The timestamps of client c that are younger than the window.
Pruned(c) == SelectSeq(rateLimitMap[c], LAMBDA ts : ts > now - RATE_LIMIT_WINDOW)

\* The request of this step is a POST to the rate-limited handler.
IsLimitedPost == Arrived.variant = "part_002" /\ Arrived.req.method = "POST"

\* C14: the rate-limit map changes in one way only. A POST to the limited
\* handler whose client is under the limit replaces that client's list with
\* the pruned list plus the current instant, whatever the handler answers
\* afterwards (415, 400, 500 or the upstream call); a POST over the limit is
\* answered 429 and, like OPTIONS, any other method, an upstream reply and
\* the passing of time, leaves the whole map unchanged.
C14_MapFrame ==
    [][ IF started' = started
        THEN rateLimitMap' = rateLimitMap
        ELSE LET c == getClientIdentifier(Arrived.req)
             IN  IF IsLimitedPost /\ Len(Pruned(c)) < RATE_LIMIT
                 THEN /\ rateLimitMap' =
                            [rateLimitMap EXCEPT ![c] = Append(Pruned(c), now)]
                      /\ ~(resp' # NoResp /\ resp'.retryAfter)
                 ELSE /\ rateLimitMap' = rateLimitMap
                      /\ IsLimitedPost =>
                            resp' # NoResp /\ resp'.status = 429 /\ resp'.retryAfter
      ]_vars

\* A POST refused for its content type has taken a place in its client's list.
C14_Witness ==
    /\ resp.k = "response"
    /\ resp.variant = "part_002"
    /\ resp.req.method = "POST"
    /\ resp.status = 415
    /\ rateLimitMap[getClientIdentifier(resp.req)] = <<now>>

====
